---------------------------- MODULE Spec2Model ----------------------------
(***************************************************************************)
(* waitexit: print a countdown and exit when it reaches zero or when any   *)
(* input arrives on standard input.                                        *)
(*                                                                         *)
(* The model follows the current program text, src/unnamed/part_001 lines  *)
(* 1-289 (parse_arguments, prepare_message, wait_for_one_second_or_input,  *)
(* init_termio, reset_termio, main).  src/waitexit.c is the earlier        *)
(* variant of the same program: the same loop, poller and terminal code    *)
(* without the -z, -f and -m options.                                      *)
(*                                                                         *)
(* Strings are sequences of one-character strings.  The command line is    *)
(* kept as getopt leaves it after permutation: the option elements in      *)
(* order (argv_opts) followed by the non-option elements (argv_rest).      *)
(***************************************************************************)
EXTENDS Integers, Sequences, FiniteSets, TLC

VARIABLES
  argv_opts,      \* option elements of argv, in command-line order
  argv_rest,      \* non-option elements of argv (argv[optind..argc-1] at the end of getopt)
  optidx,         \* number of option elements getopt has returned so far
  settings,       \* Settings: countdown, opts, exitcode, template
  pc,             \* position of the process in main
  seconds,        \* main: int seconds
  exitcode,       \* main: int exitcode
  seconds_left,   \* main: int seconds_left
  out,            \* what has been written to standard output, in order
  err,            \* what has been written to standard error, in order
  stdin_tty,      \* isatty(fileno(stdin))
  term_lflag,     \* c_lflag of the terminal behind stdin (the flags that are set)
  default_term,   \* static struct termios default_term (its c_lflag)
  atexit_fns,     \* functions registered with atexit
  polls,          \* history: the result of every select call, in order
  exit_reason,    \* history: how the loop ended ("None" while it has not)
  resets,         \* history: number of runs of reset_termio
  exit_status,    \* exit status of the process (-1 while it runs or when killed)
  msg,            \* prepare_message run step by step: what has been written from dst on
  msg_i           \* prepare_message run step by step: the loop index i

vars == <<msg, msg_i, argv_opts, argv_rest, optidx, settings, pc, seconds, exitcode,
          seconds_left, out, err, stdin_tty, term_lflag, default_term,
          atexit_fns, polls, exit_reason, resets, exit_status>>

---------------------------------------------------------------------------
(* Bounds of the model *)

MaxOpts == 2          \* option elements on the command line
MaxCountdown == 3     \* largest countdown N on the command line
MaxTemplateLen == 4   \* length of the templates enumerated for rendering

(* Program constants *)

OPT_SILENT == 1
OPT_HELP == 2
OPT_SUPPRESS_EXIT_INFO == 4
OPT_FAIL_NO_USER_INTERACTION == 8
TEMPLATE_SIZE == 256
MSG_SIZE == 1024
INT_MAX == 2147483647

---------------------------------------------------------------------------
(* Characters and numbers *)

Digits == <<"0", "1", "2", "3", "4", "5", "6", "7", "8", "9">>

\* sprintf("%d", n)
RECURSIVE NatToStr(_)
NatToStr(n) == IF n < 10 THEN <<Digits[n + 1]>>
               ELSE NatToStr(n \div 10) \o <<Digits[(n % 10) + 1]>>

IntToStr(n) == IF n < 0 THEN <<"-">> \o NatToStr(-n) ELSE NatToStr(n)


HexDigits == <<"0", "1", "2", "3", "4", "5", "6", "7", "8", "9",
               "a", "b", "c", "d", "e", "f">>

\* the value of c as a digit of the base, or -1 when it is none
BaseDigit(c, base) ==
  IF \E d \in 1..base : HexDigits[d] = c
    THEN (CHOOSE d \in 1..base : HexDigits[d] = c) - 1
    ELSE -1

\* the longest run of digits of the base in s from position i on:
\* [val |-> its value, n |-> the number of digits]
RECURSIVE ScanDigits(_, _, _, _, _)
ScanDigits(s, i, base, acc, n) ==
  IF i <= Len(s) /\ BaseDigit(s[i], base) >= 0
    THEN ScanDigits(s, i + 1, base, acc * base + BaseDigit(s[i], base), n + 1)
    ELSE [val |-> acc, n |-> n]

\* sscanf(s, "%i", &val): [n |-> the return value, val |-> what is stored].
\* An optional sign, then 0x and hexadecimal digits, or 0 and octal digits,
\* or decimal digits; the conversion stops at the first character that does
\* not fit and fails when there was no digit.
Sscanf_i(s) ==
  LET neg   == Len(s) >= 1 /\ s[1] = "-"
      start == IF Len(s) >= 1 /\ s[1] \in {"-", "+"} THEN 2 ELSE 1
      isHex == /\ start + 2 <= Len(s)
               /\ s[start] = "0"
               /\ s[start + 1] \in {"x", "X"}
               /\ BaseDigit(s[start + 2], 16) >= 0
      isOct == start <= Len(s) /\ s[start] = "0"
      r     == IF isHex THEN ScanDigits(s, start + 2, 16, 0, 0)
               ELSE IF isOct THEN ScanDigits(s, start, 8, 0, 0)
               ELSE ScanDigits(s, start, 10, 0, 0)
  IN  IF s = <<>> THEN [n |-> -1, val |-> 0]
      ELSE IF r.n = 0 THEN [n |-> 0, val |-> 0]
      ELSE [n |-> 1, val |-> IF neg THEN -r.val ELSE r.val]

\* strnlen(s, max)
Strnlen(s, max) == IF Len(s) < max THEN Len(s) ELSE max

---------------------------------------------------------------------------
(* Message template *)

DEFAULT_MSG_TEMPLATE ==
  <<"W","a","i","t","i","n","g"," ","f","o","r"," ","%","S"," ",
    "s","e","c","o","n","d","s",","," ","p","r","e","s","s"," ",
    "a","n","y"," ","k","e","y"," ","t","o"," ","e","x","i","t",".",".">>

\* prepare_message: the text written to dst for the template from index i on
\* (i counts from 1; the C loop index is i - 1)
RECURSIVE PrepareFrom(_, _, _)
PrepareFrom(template, i, secs) ==
  IF i > Len(template) THEN <<>>
  ELSE LET c == template[i]
       IN  IF c \in {"\n", "\r"}
             THEN PrepareFrom(template, i + 1, secs)
           ELSE IF c = "%" /\ i < Len(template) /\ template[i + 1] = "S"
             THEN IntToStr(secs) \o PrepareFrom(template, i + 2, secs)
           ELSE <<c>> \o PrepareFrom(template, i + 1, secs)

prepare_message(template, secs) == PrepareFrom(template, 1, secs)

---------------------------------------------------------------------------
(* The command lines and environments the model runs the program on *)

\* arguments given to -e: in range (two of them), out of range, not a number
ExitcodeArgs == { <<"5">>, <<"0">>, <<"2","5","6">>, <<"x">> }

\* a template of 256 characters, one more than the Settings take
TooLongTemplate == [i \in 1..TEMPLATE_SIZE |-> "x"]

\* arguments given to -m
TemplateArgs == { <<"%","S","\n","s","%">>, TooLongTemplate }

\* what getopt returns for one option element: the option character (or "?"
\* for an unknown option or a missing argument) and optarg
OptElems ==
  {[c |-> x, optarg |-> <<>>] : x \in {"s", "z", "f", "h", "?"}}
    \cup {[c |-> "e", optarg |-> a] : a \in ExitcodeArgs}
    \cup {[c |-> "m", optarg |-> a] : a \in TemplateArgs}

OptSeqs == UNION {[1..n -> OptElems] : n \in 0..MaxOpts}

\* the first non-option element: absent, a countdown, a negative number
\* (after "--"), not a number, a number followed by something else
RestSeqs ==
  {<<>>, << <<"-","1">> >>, << <<"x">> >>, << <<"2","x">> >>}
    \cup {<<IntToStr(n)>> : n \in 0..MaxCountdown}

\* c_lflag of the terminal when the program starts
InitialLflags == { {"ECHO", "ICANON", "ISIG"}, {"ECHO"} }

Init ==
  /\ argv_opts \in OptSeqs
  /\ argv_rest \in RestSeqs
  /\ optidx = 0
  /\ settings = [countdown |-> -1, opts |-> {}, exitcode |-> 0,
                 template |-> DEFAULT_MSG_TEMPLATE]
  /\ pc = "getopt"
  /\ seconds = 0
  /\ exitcode = 0
  /\ seconds_left = 0
  /\ out = <<>>
  /\ err = <<>>
  /\ stdin_tty \in BOOLEAN
  /\ term_lflag \in (IF stdin_tty THEN InitialLflags ELSE {{}})
  /\ default_term = {}
  /\ atexit_fns = <<>>
  /\ polls = <<>>
  /\ exit_reason = "None"
  /\ resets = 0
  /\ exit_status = -1
  /\ msg = <<>>
  /\ msg_i = 0

---------------------------------------------------------------------------
(* Process exit *)

\* reset_termio leaving the terminal as it is
reset_termio_noop(lflag) == lflag

\* tcsetattr(fileno(stdin), TCSANOW, &default_term) in reset_termio: the
\* c_lflag of the terminal afterwards; the call fails and changes nothing
\* when stdin is no terminal
reset_termio(lflag) == IF stdin_tty THEN default_term ELSE lflag

\* the c_lflag of the terminal after the registered functions have run,
\* last registered first
RECURSIVE RunAtexit(_, _)
RunAtexit(fns, lflag) ==
  IF fns = <<>> THEN lflag
  ELSE RunAtexit(SubSeq(fns, 1, Len(fns) - 1), reset_termio(lflag))

\* return from main with the status: exit() runs the atexit functions and
\* the process ends
Exit(status) ==
  /\ term_lflag' = RunAtexit(atexit_fns, term_lflag)
  /\ resets' = resets + Len(atexit_fns)
  /\ exit_status' = status % 256
  /\ pc' = "exited"

---------------------------------------------------------------------------
(* parse_arguments *)

NextOpt == argv_opts[optidx + 1]

HasOpt(c) == pc = "getopt" /\ optidx < Len(argv_opts) /\ NextOpt.c = c

\* parse_arguments returns 0 after writing msg: main returns 1
ParseFail(msgs) ==
  /\ err' = err \o msgs
  /\ Exit(1)
  /\ UNCHANGED <<msg, msg_i, argv_opts, argv_rest, optidx, settings, seconds, exitcode,
                 seconds_left, out, stdin_tty, default_term, atexit_fns,
                 polls, exit_reason>>

ParseStep(newSettings) ==
  /\ settings' = newSettings
  /\ optidx' = optidx + 1
  /\ UNCHANGED <<msg, msg_i, argv_opts, argv_rest, pc, seconds, exitcode, seconds_left,
                 out, err, stdin_tty, term_lflag, default_term, atexit_fns,
                 polls, exit_reason, resets, exit_status>>

OptSilent ==
  /\ HasOpt("s")
  /\ ParseStep([settings EXCEPT !.opts = @ \cup {OPT_SILENT}])

OptSuppress ==
  /\ HasOpt("z")
  /\ ParseStep([settings EXCEPT !.opts = @ \cup {OPT_SUPPRESS_EXIT_INFO}])

\* case 'f' without the line that resets the exit code
OptFailKeepsCode(s) ==
  [s EXCEPT !.opts = @ \cup {OPT_FAIL_NO_USER_INTERACTION}]

OptFailSettings(s) ==
  [s EXCEPT !.opts = @ \cup {OPT_FAIL_NO_USER_INTERACTION}, !.exitcode = 0]

OptFail ==
  /\ HasOpt("f")
  /\ ParseStep(OptFailSettings(settings))

OptMessage ==
  /\ HasOpt("m")
  /\ IF Strnlen(NextOpt.optarg, TEMPLATE_SIZE) >= TEMPLATE_SIZE
       THEN ParseFail(<<"template too big">>)
       ELSE ParseStep([settings EXCEPT
                         !.template = SubSeq(NextOpt.optarg, 1,
                                             Strnlen(NextOpt.optarg, TEMPLATE_SIZE - 1))])

\* case 'e' without the line that clears OPT_FAIL_NO_USER_INTERACTION
OptExitcodeKeepsFail(s, val) == [s EXCEPT !.exitcode = val]

OptExitcodeSettings(s, val) ==
  [s EXCEPT !.exitcode = val, !.opts = @ \ {OPT_FAIL_NO_USER_INTERACTION}]

OptExitcode ==
  /\ HasOpt("e")
  /\ LET r == Sscanf_i(NextOpt.optarg)
     IN  IF r.n # 1
           THEN ParseFail(<<"-e requires an integer argument">>)
         ELSE IF r.val < 0 \/ r.val > 255
           THEN ParseFail(<<"-e requires integer argument between 0 and 255">>)
         ELSE ParseStep(OptExitcodeSettings(settings, r.val))

OptHelp ==
  /\ HasOpt("h")
  /\ ParseStep([settings EXCEPT !.opts = @ \cup {OPT_HELP}])

\* getopt has written its own message (opterr = 1)
OptUnknown ==
  /\ HasOpt("?")
  /\ ParseFail(<<"getopt: invalid option or missing argument">>)

\* getopt returned -1: the countdown, when there is a non-option element
ParseCountdown ==
  /\ pc = "getopt"
  /\ optidx = Len(argv_opts)
  /\ IF argv_rest # <<>>
       THEN LET r == Sscanf_i(argv_rest[1])
            IN  IF r.n # 1 \/ r.val < 0
                  THEN ParseFail(<<"countdown must be a positive integer">>)
                  ELSE /\ settings' = [settings EXCEPT !.countdown = r.val]
                       /\ pc' = "parsed"
                       /\ UNCHANGED <<err, term_lflag, resets, exit_status>>
       ELSE /\ pc' = "parsed"
            /\ UNCHANGED <<settings, err, term_lflag, resets, exit_status>>
  /\ UNCHANGED <<msg, msg_i, argv_opts, argv_rest, optidx, seconds, exitcode,
                 seconds_left, out, stdin_tty, default_term, atexit_fns,
                 polls, exit_reason>>

---------------------------------------------------------------------------
(* Terminal *)

\* a raw mode that also turns signal generation off
RawLflagNoSig(lflag) == lflag \ {"ECHO", "ICANON", "ISIG"}

\* term.c_lflag &= ~(ECHO | ICANON)
RawLflag(lflag) == lflag \ {"ECHO", "ICANON"}

\* init_termio, then the declarations of seconds, exitcode and seconds_left
InitTermio ==
  /\ pc = "parsed"
  /\ OPT_HELP \notin settings.opts
  /\ settings.countdown >= 0
  /\ IF stdin_tty
       THEN /\ default_term' = term_lflag
            /\ atexit_fns' = Append(atexit_fns, "reset_termio")
            /\ term_lflag' = RawLflag(term_lflag)
       ELSE UNCHANGED <<default_term, atexit_fns, term_lflag>>
  /\ seconds' = settings.countdown
  /\ exitcode' = settings.exitcode
  /\ seconds_left' = settings.countdown
  /\ pc' = "loop"
  /\ UNCHANGED <<msg, msg_i, argv_opts, argv_rest, optidx, settings, out, err, stdin_tty,
                 polls, exit_reason, resets, exit_status>>

---------------------------------------------------------------------------
(* main *)

\* print_usage writes the help text to standard error; main returns 0
MainHelp ==
  /\ pc = "parsed"
  /\ OPT_HELP \in settings.opts
  /\ err' = Append(err, "usage")
  /\ Exit(0)
  /\ UNCHANGED <<msg, msg_i, argv_opts, argv_rest, optidx, settings, seconds, exitcode,
                 seconds_left, out, stdin_tty, default_term, atexit_fns,
                 polls, exit_reason>>

\* the test of the countdown made before the test of OPT_HELP
MainNoCountdownFirst ==
  /\ pc = "parsed"
  /\ settings.countdown < 0
  /\ err' = Append(err, "number of seconds to wait must be specified")
  /\ Exit(1)
  /\ UNCHANGED <<msg, msg_i, argv_opts, argv_rest, optidx, settings, seconds, exitcode,
                 seconds_left, out, stdin_tty, default_term, atexit_fns,
                 polls, exit_reason>>

MainNoCountdown ==
  /\ pc = "parsed"
  /\ OPT_HELP \notin settings.opts
  /\ settings.countdown < 0
  /\ err' = Append(err, "number of seconds to wait must be specified")
  /\ Exit(1)
  /\ UNCHANGED <<msg, msg_i, argv_opts, argv_rest, optidx, settings, seconds, exitcode,
                 seconds_left, out, stdin_tty, default_term, atexit_fns,
                 polls, exit_reason>>

Silent == OPT_SILENT \in settings.opts

\* "\r\033[K"
ClearLine == <<"\r", "ESC", "[", "K">>

\* the loop condition with the bound off by one
LoopCondOffByOne(left) == left > 1

\* the loop condition letting a countdown of zero in
LoopCondInclusive(left) == left >= 0

\* while (seconds_left > 0)
LoopCond(left) == left > 0

\* the loop condition holds: the status line is written unless silent, and
\* wait_for_one_second_or_input is entered
LoopRender ==
  /\ pc = "loop"
  /\ LoopCond(seconds_left)
  /\ out' = IF Silent THEN out
            ELSE Append(out, prepare_message(settings.template, seconds_left))
  /\ pc' = "wait"
  /\ UNCHANGED <<msg, msg_i, argv_opts, argv_rest, optidx, settings, seconds, exitcode,
                 seconds_left, err, stdin_tty, term_lflag, default_term,
                 atexit_fns, polls, exit_reason, resets, exit_status>>

\* the loop condition fails: the countdown has expired
LoopExpired ==
  /\ pc = "loop"
  /\ ~LoopCond(seconds_left)
  /\ exit_reason' = "Timeout"
  /\ pc' = "resolve"
  /\ UNCHANGED <<msg, msg_i, argv_opts, argv_rest, optidx, settings, seconds, exitcode,
                 seconds_left, out, err, stdin_tty, term_lflag, default_term,
                 atexit_fns, polls, resets, exit_status>>

---------------------------------------------------------------------------
(* wait_for_one_second_or_input *)

\* what select returns: 0 after one second without input, 1 when stdin is
\* readable, -1 when it fails
SelectResults == {0, 1, -1}

\* what the read that follows a non-zero select meets: bytes, end of file
\* (stdin readable with nothing to deliver), or a failure
ReadResults == {"data", "eof", "error"}

\* the poller without its "return retval": it falls through to "return 0"
wait_drops_retval(sel, rd) == 0

\* a poller that reports input only when the read delivered bytes
wait_needs_data(sel, rd) == IF sel # 0 /\ rd = "data" THEN sel ELSE 0

\* the return value: retval when it is non-zero (the result of the read is
\* not looked at), 0 otherwise
wait_for_one_second_or_input(sel, rd) == IF sel # 0 THEN sel ELSE 0

\* a decrement of two
DecrementByTwo(left) == left - 2

\* seconds_left = seconds_left - 1
Decrement(left) == left - 1

\* the loop body without the clear sequence after a poll that timed out
WaitNoClear(sel, rd) ==
  /\ pc = "wait"
  /\ polls' = Append(polls, [sel |-> sel, rd |-> rd])
  /\ IF wait_for_one_second_or_input(sel, rd) # 0
       THEN /\ exit_reason' = "Interrupted"
            /\ pc' = "resolve"
            /\ UNCHANGED <<seconds_left, out>>
       ELSE /\ seconds_left' = Decrement(seconds_left)
            /\ pc' = "loop"
            /\ UNCHANGED <<exit_reason, out>>
  /\ UNCHANGED <<msg, msg_i, argv_opts, argv_rest, optidx, settings, seconds, exitcode,
                 err, stdin_tty, term_lflag, default_term, atexit_fns,
                 resets, exit_status>>

\* the loop body with the decrement made before the result of the poll is
\* looked at
WaitDecrementFirst(sel, rd) ==
  /\ pc = "wait"
  /\ polls' = Append(polls, [sel |-> sel, rd |-> rd])
  /\ seconds_left' = Decrement(seconds_left)
  /\ IF wait_for_one_second_or_input(sel, rd) # 0
       THEN /\ exit_reason' = "Interrupted"
            /\ pc' = "resolve"
            /\ UNCHANGED out
       ELSE /\ out' = IF Silent THEN out ELSE Append(out, ClearLine)
            /\ pc' = "loop"
            /\ UNCHANGED exit_reason
  /\ UNCHANGED <<msg, msg_i, argv_opts, argv_rest, optidx, settings, seconds, exitcode,
                 err, stdin_tty, term_lflag, default_term, atexit_fns,
                 resets, exit_status>>

\* one call of wait_for_one_second_or_input from the loop and the rest of
\* the loop body
Wait(sel, rd) ==
  /\ pc = "wait"
  /\ polls' = Append(polls, [sel |-> sel, rd |-> rd])
  /\ IF wait_for_one_second_or_input(sel, rd) # 0
       THEN /\ exit_reason' = "Interrupted"
            /\ pc' = "resolve"
            /\ UNCHANGED <<seconds_left, out>>
       ELSE /\ seconds_left' = Decrement(seconds_left)
            /\ out' = IF Silent THEN out ELSE Append(out, ClearLine)
            /\ pc' = "loop"
            /\ UNCHANGED exit_reason
  /\ UNCHANGED <<msg, msg_i, argv_opts, argv_rest, optidx, settings, seconds, exitcode,
                 err, stdin_tty, term_lflag, default_term, atexit_fns,
                 resets, exit_status>>

\* one second passes without input
WaitTimedOut == Wait(0, "none")

\* stdin becomes readable within the second
WaitInput == \E rd \in ReadResults : Wait(1, rd)

\* select fails
WaitSelectFailed == \E rd \in ReadResults : Wait(-1, rd)

---------------------------------------------------------------------------
(* main, after the loop *)

\* the override left out
ResolvedNoOverride(left, opts, code) == code

\* the override without its test of seconds_left
ResolvedAlwaysOverride(left, opts, code) ==
  IF OPT_FAIL_NO_USER_INTERACTION \in opts THEN 1 ELSE code

\* if (seconds_left == 0 && (opts & OPT_FAIL_NO_USER_INTERACTION)) exitcode = 1
ResolvedExitcode(left, opts, code) ==
  IF left = 0 /\ OPT_FAIL_NO_USER_INTERACTION \in opts THEN 1 ELSE code

ResolveExitcode ==
  /\ pc = "resolve"
  /\ exitcode' = ResolvedExitcode(seconds_left, settings.opts, exitcode)
  /\ pc' = "report"
  /\ UNCHANGED <<msg, msg_i, argv_opts, argv_rest, optidx, settings, seconds,
                 seconds_left, out, err, stdin_tty, term_lflag, default_term,
                 atexit_fns, polls, exit_reason, resets, exit_status>>

\* "\r\033[KExit %i after %i seconds.\n"
ExitInfo(code, elapsed) ==
  ClearLine \o <<"E","x","i","t"," ">> \o IntToStr(code)
            \o <<" ","a","f","t","e","r"," ">> \o IntToStr(elapsed)
            \o <<" ","s","e","c","o","n","d","s",".","\n">>

\* the final output without the test of OPT_SILENT
FinalOutputNotSilent(opts, code, elapsed) ==
  IF OPT_SUPPRESS_EXIT_INFO \in opts THEN <<ClearLine \o <<"\n">> >>
  ELSE <<ExitInfo(code, elapsed)>>

\* the final output with the configured exit code, not the resolved one
FinalOutputConfiguredCode(opts, code, elapsed) ==
  IF OPT_SILENT \in opts THEN <<>>
  ELSE IF OPT_SUPPRESS_EXIT_INFO \in opts THEN <<ClearLine \o <<"\n">> >>
  ELSE <<ExitInfo(settings.exitcode, elapsed)>>

\* what main writes to standard output after the loop
FinalOutput(opts, code, elapsed) ==
  IF OPT_SILENT \in opts THEN <<>>
  ELSE IF OPT_SUPPRESS_EXIT_INFO \in opts THEN <<ClearLine \o <<"\n">> >>
  ELSE <<ExitInfo(code, elapsed)>>

PrintExitInfo ==
  /\ pc = "report"
  /\ out' = out \o FinalOutput(settings.opts, exitcode, seconds - seconds_left)
  /\ pc' = "return"
  /\ UNCHANGED <<msg, msg_i, argv_opts, argv_rest, optidx, settings, seconds, exitcode,
                 seconds_left, err, stdin_tty, term_lflag, default_term,
                 atexit_fns, polls, exit_reason, resets, exit_status>>

\* return exitcode
MainReturn ==
  /\ pc = "return"
  /\ Exit(exitcode)
  /\ UNCHANGED <<msg, msg_i, argv_opts, argv_rest, optidx, settings, seconds, exitcode,
                 seconds_left, out, err, stdin_tty, default_term, atexit_fns,
                 polls, exit_reason>>

---------------------------------------------------------------------------
(* Signals *)

\* SIGINT, SIGTERM, SIGHUP...: no handler is installed, the default action
\* ends the process at once and the atexit functions do not run
Kill ==
  /\ pc \notin {"exited", "killed"}
  /\ pc' = "killed"
  /\ UNCHANGED <<msg, msg_i, argv_opts, argv_rest, optidx, settings, seconds, exitcode,
                 seconds_left, out, err, stdin_tty, term_lflag, default_term,
                 atexit_fns, polls, exit_reason, resets, exit_status>>

---------------------------------------------------------------------------

Next ==
  \/ OptSilent
  \/ OptSuppress
  \/ OptFail
  \/ OptMessage
  \/ OptExitcode
  \/ OptHelp
  \/ OptUnknown
  \/ ParseCountdown
  \/ MainHelp
  \/ MainNoCountdown
  \/ InitTermio
  \/ LoopRender
  \/ LoopExpired
  \/ WaitTimedOut
  \/ WaitInput
  \/ WaitSelectFailed
  \/ ResolveExitcode
  \/ PrintExitInfo
  \/ MainReturn
  \/ Kill

Spec == Init /\ [][Next]_vars

---------------------------------------------------------------------------
(* The rendering of the status line on its own: main at its first tick,    *)
(* not silent, after "-m TEMPLATE N" has been parsed, with the loop of     *)
(* prepare_message run one iteration at a time                             *)

TemplateChars == {"%", "S", "a", "\n", "\r"}

\* n placeholders in a row
Placeholders(n) == [i \in 1..(2 * n) |-> IF i % 2 = 1 THEN "%" ELSE "S"]

\* the templates rendered: every short one, and the longest ones -m takes
\* that are made of placeholders
RenderTemplates ==
  UNION {[1..n -> TemplateChars] : n \in 0..MaxTemplateLen}
    \cup {Placeholders((TEMPLATE_SIZE - 1) \div 2),
          Placeholders((TEMPLATE_SIZE - 1) \div 2) \o <<"a">>}

\* the values of seconds_left rendered
RenderSeconds == {1, 42, INT_MAX}

InitRender ==
  /\ \E t \in RenderTemplates, n \in RenderSeconds :
       /\ argv_opts = <<[c |-> "m", optarg |-> t]>>
       /\ argv_rest = <<IntToStr(n)>>
       /\ settings = [countdown |-> n, opts |-> {}, exitcode |-> 0,
                      template |-> t]
       /\ seconds = n
       /\ seconds_left = n
  /\ optidx = 1
  /\ pc = "prepare"
  /\ exitcode = 0
  /\ out = <<>>
  /\ err = <<>>
  /\ stdin_tty = FALSE
  /\ term_lflag = {}
  /\ default_term = {}
  /\ atexit_fns = <<>>
  /\ polls = <<>>
  /\ exit_reason = "None"
  /\ resets = 0
  /\ exit_status = -1
  /\ msg = <<>>
  /\ msg_i = 0

\* one iteration of the loop that keeps carriage returns
PrepareIterationKeepsCR(template, i, secs) ==
  LET c == template[i + 1]
  IN  IF c = "\n"
        THEN [text |-> <<>>, i |-> i + 1]
      ELSE IF c = "%" /\ i < Len(template) - 1 /\ template[i + 2] = "S"
        THEN [text |-> IntToStr(secs), i |-> i + 2]
      ELSE [text |-> <<c>>, i |-> i + 1]

\* one iteration of the loop of prepare_message at index i (the C index,
\* from 0): the text written at dst and the index of the next iteration
PrepareIteration(template, i, secs) ==
  LET c == template[i + 1]
  IN  IF c \in {"\n", "\r"}
        THEN [text |-> <<>>, i |-> i + 1]
      ELSE IF c = "%" /\ i < Len(template) - 1 /\ template[i + 2] = "S"
        THEN [text |-> IntToStr(secs), i |-> i + 2]
      ELSE [text |-> <<c>>, i |-> i + 1]

PrepareStep ==
  /\ pc = "prepare"
  /\ msg_i < Len(settings.template)
  /\ LET r == PrepareIteration(settings.template, msg_i, seconds_left)
     IN  /\ msg' = msg \o r.text
         /\ msg_i' = r.i
  /\ UNCHANGED <<argv_opts, argv_rest, optidx, settings, pc, seconds,
                 exitcode, seconds_left, out, err, stdin_tty, term_lflag,
                 default_term, atexit_fns, polls, exit_reason, resets,
                 exit_status>>

\* the loop ends: *dst = 0, and main writes the message with fputs
PrepareEnd ==
  /\ pc = "prepare"
  /\ msg_i >= Len(settings.template)
  /\ msg' = Append(msg, "NUL")
  /\ out' = Append(out, msg)
  /\ pc' = "rendered"
  /\ UNCHANGED <<msg_i, argv_opts, argv_rest, optidx, settings, seconds,
                 exitcode, seconds_left, err, stdin_tty, term_lflag,
                 default_term, atexit_fns, polls, exit_reason, resets,
                 exit_status>>

NextRender ==
  \/ PrepareStep
  \/ PrepareEnd

SpecRender == InitRender /\ [][NextRender]_vars

---------------------------------------------------------------------------
(* The first tick of main from the rendering to the exit of the process,   *)
(* when the first poll ends the loop: the message is written into          *)
(* char msg[1024], and a longer message is written past its end            *)

\* values an int of main's frame can hold after digits and the terminator
\* of the message were written over it: untouched bytes and a terminator,
\* one digit, four digits
ClobberedInts == {0, 50, 926167346}

\* the message and its terminator are within msg
MessageFits ==
  /\ pc = "rendered"
  /\ Len(msg) <= MSG_SIZE
  /\ pc' = "wait"
  /\ UNCHANGED <<msg, msg_i, argv_opts, argv_rest, optidx, settings, seconds,
                 exitcode, seconds_left, out, err, stdin_tty, term_lflag,
                 default_term, atexit_fns, polls, exit_reason, resets,
                 exit_status>>

\* prepare_message has written past the end of msg: the behaviour is
\* undefined, and the locals of main that the build placed after msg hold
\* bytes of the message
MessageOverflows ==
  /\ pc = "rendered"
  /\ Len(msg) > MSG_SIZE
  /\ seconds_left' \in {seconds_left} \cup ClobberedInts
  /\ exitcode' \in {exitcode} \cup ClobberedInts
  /\ pc' = "wait"
  /\ UNCHANGED <<msg, msg_i, argv_opts, argv_rest, optidx, settings, seconds,
                 out, err, stdin_tty, term_lflag, default_term, atexit_fns,
                 polls, exit_reason, resets, exit_status>>

\* after an overflow of msg the return of main can end the process with a
\* signal (the guard value of the frame or the return address is
\* overwritten); the atexit functions do not run
StackCheckFails ==
  /\ pc = "return"
  /\ Len(msg) > MSG_SIZE
  /\ pc' = "killed"
  /\ UNCHANGED <<msg, msg_i, argv_opts, argv_rest, optidx, settings, seconds,
                 exitcode, seconds_left, out, err, stdin_tty, term_lflag,
                 default_term, atexit_fns, polls, exit_reason, resets,
                 exit_status>>

NextOverflow ==
  \/ PrepareStep
  \/ PrepareEnd
  \/ MessageFits
  \/ MessageOverflows
  \/ WaitInput
  \/ WaitSelectFailed
  \/ ResolveExitcode
  \/ PrintExitInfo
  \/ MainReturn
  \/ StackCheckFails

SpecOverflow == InitRender /\ [][NextOverflow]_vars

---------------------------------------------------------------------------
(* Vocabulary of the properties *)

\* the option was given on the command line
Given(c) == \E i \in 1..Len(argv_opts) : argv_opts[i].c = c

\* the position of the last -e or -f on the command line (0: neither given)
LastEF ==
  LET S == {i \in 1..Len(argv_opts) : argv_opts[i].c \in {"e", "f"}}
  IN  IF S = {} THEN 0 ELSE CHOOSE i \in S : \A j \in S : j <= i

\* the position of the last -e on the command line (0: not given)
LastE ==
  LET S == {i \in 1..Len(argv_opts) : argv_opts[i].c = "e"}
  IN  IF S = {} THEN 0 ELSE CHOOSE i \in S : \A j \in S : j <= i

\* CODE of the last -e CODE
LastCode == Sscanf_i(argv_opts[LastE].optarg).val

\* the loop has ended
LoopDone == exit_reason # "None"

\* no poll has found stdin readable or failed
NoInput == \A i \in 1..Len(polls) : polls[i].sel = 0

\* the k-th poll is the first that found input
FirstInputAt(k) ==
  /\ k \in 1..Len(polls)
  /\ polls[k].sel = 1
  /\ \A j \in 1..(k - 1) : polls[j].sel = 0

\* the last poll found input
EndedByInput == polls # <<>> /\ polls[Len(polls)].sel = 1

\* the last poll failed: in select, or in the read that drains stdin
EndedByFailure ==
  /\ polls # <<>>
  /\ \/ polls[Len(polls)].sel = -1
     \/ polls[Len(polls)].rd = "error"

\* ECHO and ICANON of the terminal are as in the snapshot
EchoCanonRestored ==
  term_lflag \cap {"ECHO", "ICANON"} = default_term \cap {"ECHO", "ICANON"}

\* the terminal has been acquired: stdin is a terminal and init_termio has
\* registered reset_termio
Acquired == stdin_tty /\ atexit_fns # <<>>

---------------------------------------------------------------------------
(* Properties *)

\* C1: as long as no poll has found input, the polls made and the seconds
\* left add up to N while the loop runs; and when the loop has ended there
\* were exactly N polls, all timed out, seconds_left is 0 and the loop ended
\* by timeout.
C1_TimeoutAfterNPolls ==
  NoInput =>
    /\ pc = "loop" =>
         (seconds_left >= 0 /\ Len(polls) + seconds_left = settings.countdown)
    /\ pc = "wait" =>
         (seconds_left >= 1 /\ Len(polls) + seconds_left = settings.countdown)
    /\ LoopDone =>
         /\ Len(polls) = settings.countdown
         /\ seconds_left = 0
         /\ exit_reason = "Timeout"

C1_Witness ==
  /\ pc = "exited"
  /\ exit_reason = "Timeout"
  /\ NoInput
  /\ Len(polls) = MaxCountdown

\* C2: when the k-th poll is the first to find input, it is the last poll,
\* the loop has ended as Interrupted and seconds_left = N - k + 1.
C2_InputStopsLoop ==
  \A k \in 1..Len(polls) :
    FirstInputAt(k) =>
      /\ Len(polls) = k
      /\ pc \notin {"loop", "wait"}
      /\ exit_reason = "Interrupted"
      /\ seconds_left = settings.countdown - k + 1

C2_Witness ==
  /\ pc = "exited"
  /\ FirstInputAt(2)
  /\ settings.countdown >= 3

\* C3 as stated: when -e CODE was given and the countdown expired, the exit
\* status is CODE (of the last -e), wherever -f stands.
C3_ExplicitCodeAnyOrder ==
  (pc = "exited" /\ exit_reason = "Timeout" /\ Given("e")) =>
    exit_status = LastCode

\* C3 as amended: when -e CODE was given with no -f after it and the
\* countdown expired, the exit status is CODE (of the last -e).
C3_ExplicitCodeLast ==
  (pc = "exited" /\ exit_reason = "Timeout" /\ Given("e") /\ LastEF = LastE) =>
    exit_status = LastCode

C3_Witness ==
  /\ pc = "exited"
  /\ exit_reason = "Timeout"
  /\ Given("f")
  /\ Given("e")
  /\ LastEF = LastE
  /\ exit_status = 5

\* C4: with -f and no -e, when the countdown expired without input the exit
\* status is 1.
C4_FailOnNoInteraction ==
  (pc = "exited" /\ exit_reason = "Timeout" /\ Given("f") /\ ~Given("e")) =>
    exit_status = 1

C4_Witness ==
  /\ pc = "exited"
  /\ exit_reason = "Timeout"
  /\ Given("f")
  /\ ~Given("e")
  /\ settings.countdown = MaxCountdown

\* C5: with -f and no -e, when a poll found input the exit status is 0.
C5_InteractionSucceeds ==
  (pc = "exited" /\ EndedByInput /\ Given("f") /\ ~Given("e")) =>
    exit_status = 0

\* input in the last tick
C5_Witness ==
  /\ pc = "exited"
  /\ EndedByInput
  /\ Given("f")
  /\ ~Given("e")
  /\ settings.countdown >= 2
  /\ seconds_left = 1

\* C6: with -s on the command line nothing is ever written to standard output.
C6_SilentWritesNothing == Given("s") => out = <<>>

C6_Witness ==
  /\ Given("s")
  /\ Given("z")
  /\ pc = "exited"
  /\ LoopDone
  /\ Len(polls) >= 2

\* C7: with N = 0 there is never a poll nor a status line, seconds_left is 0,
\* the loop ends by timeout and the final output reports 0 elapsed seconds.
C7_ZeroCountdown ==
  settings.countdown = 0 =>
    /\ polls = <<>>
    /\ pc # "wait"
    /\ seconds_left = 0
    /\ exit_reason \in {"None", "Timeout"}
    /\ pc \in {"loop", "resolve", "report"} => out = <<>>
    /\ pc = "resolve" => exit_reason = "Timeout"
    /\ (pc \in {"return", "exited"} /\ LoopDone) =>
         out = FinalOutput(settings.opts, exitcode, 0)

C7_Witness ==
  /\ settings.countdown = 0
  /\ pc = "exited"
  /\ exit_reason = "Timeout"
  /\ out = <<ExitInfo(0, 0)>>

\* C8: when the process has exited after acquiring the terminal,
\* reset_termio has run exactly once and ECHO and ICANON are as in the
\* snapshot.
C8_TerminalRestoredOnExit ==
  (pc = "exited" /\ Acquired) => (resets = 1 /\ EchoCanonRestored)

C8_Witness ==
  /\ pc = "exited"
  /\ Acquired
  /\ "ECHO" \in term_lflag
  /\ "ICANON" \in term_lflag
  /\ EndedByInput

\* C9: when a signal ends the process while the poller waits, ECHO and
\* ICANON of the terminal are afterwards as in the snapshot.
C9_TerminalRestoredOnSignal ==
  [][(pc = "wait" /\ pc' = "killed" /\ Acquired) => EchoCanonRestored']_vars

\* C10: a run whose last poll failed does not end as a run ended by a key
\* press, Interrupted with the configured exit code as exit status.
C10_FailureIsNotKeypress ==
  (pc = "exited" /\ EndedByFailure) =>
    ~(exit_reason = "Interrupted" /\ exit_status = settings.exitcode)

---------------------------------------------------------------------------
(* Vocabulary of the properties: the command line *)

\* the text is a decimal integer: an optional sign and then digits only
IsInteger(s) ==
  LET start == IF Len(s) >= 1 /\ s[1] \in {"-", "+"} THEN 2 ELSE 1
  IN  /\ start <= Len(s)
      /\ \A i \in start..Len(s) : \E d \in 1..10 : Digits[d] = s[i]

\* the value of such a text
RECURSIVE DecimalValue(_, _)
DecimalValue(s, acc) ==
  IF s = <<>> THEN acc
  ELSE IF s[1] = "-" THEN -DecimalValue(Tail(s), 0)
  ELSE IF s[1] = "+" THEN DecimalValue(Tail(s), 0)
  ELSE DecimalValue(Tail(s),
                    acc * 10 + (CHOOSE d \in 0..9 : Digits[d + 1] = s[1]))

\* the command line holds a configuration error: an unknown flag, a
\* malformed or out-of-range -e value, a -m template of more than 255
\* bytes, a malformed or negative N, or no N (and no -h asking for the
\* usage text instead of a run)
ConfigError ==
  \/ Given("?")
  \/ \E i \in 1..Len(argv_opts) :
       /\ argv_opts[i].c = "e"
       /\ \/ ~IsInteger(argv_opts[i].optarg)
          \/ DecimalValue(argv_opts[i].optarg, 0) \notin 0..255
  \/ \E i \in 1..Len(argv_opts) :
       /\ argv_opts[i].c = "m"
       /\ Len(argv_opts[i].optarg) > 255
  \/ /\ argv_rest # <<>>
     /\ \/ ~IsInteger(argv_rest[1])
        \/ DecimalValue(argv_rest[1], 0) < 0
  \/ argv_rest = <<>> /\ ~Given("h")

\* init_termio has not run and the terminal is as it was: in every initial
\* mode of the model ECHO is set, and init_termio clears it
TerminalUntouched ==
  /\ atexit_fns = <<>>
  /\ default_term = {}
  /\ resets = 0
  /\ stdin_tty => "ECHO" \in term_lflag

\* the loop has not been entered
LoopNotStarted ==
  /\ pc \in {"getopt", "parsed", "exited", "killed"}
  /\ exit_reason = "None"
  /\ polls = <<>>

\* C11: on a command line with a configuration error the loop never starts,
\* nothing is written to standard output, the terminal is left alone and the
\* process exits with status 1.
C11_ConfigErrorExitsOne ==
  ConfigError =>
    /\ LoopNotStarted
    /\ out = <<>>
    /\ TerminalUntouched
    /\ pc = "exited" => exit_status = 1

\* parse_arguments rejects the command line: an unknown flag or a missing
\* option argument, a -e value it does not accept, a -m template of more
\* than 255 bytes, or an N it does not accept
ParserRejects ==
  \/ Given("?")
  \/ \E i \in 1..Len(argv_opts) :
       /\ argv_opts[i].c = "e"
       /\ \/ Sscanf_i(argv_opts[i].optarg).n # 1
          \/ Sscanf_i(argv_opts[i].optarg).val \notin 0..255
  \/ \E i \in 1..Len(argv_opts) :
       /\ argv_opts[i].c = "m"
       /\ Len(argv_opts[i].optarg) > 255
  \/ /\ argv_rest # <<>>
     /\ \/ Sscanf_i(argv_rest[1]).n # 1
        \/ Sscanf_i(argv_rest[1]).val < 0

\* C12 as stated: with -h on the command line, whatever else is on it, the
\* loop never starts, the terminal is left alone, and the process exits with
\* status 0 after writing the usage text.
C12_HelpAlways ==
  Given("h") =>
    /\ LoopNotStarted
    /\ TerminalUntouched
    /\ pc = "exited" => (exit_status = 0 /\ err = <<"usage">>)

\* C12 as amended: the same, when the parser rejects nothing on the command
\* line.
C12_HelpWhenAccepted ==
  (Given("h") /\ ~ParserRejects) =>
    /\ LoopNotStarted
    /\ TerminalUntouched
    /\ out = <<>>
    /\ pc = "exited" => (exit_status = 0 /\ err = <<"usage">>)

\* -h with another flag and without N
C12_Witness ==
  /\ Given("h")
  /\ Given("f")
  /\ argv_rest = <<>>
  /\ pc = "exited"
  /\ exit_status = 0
  /\ err = <<"usage">>

\* the positions of main from the loop on
LoopStates == {"loop", "wait", "resolve", "report", "return"}

SecondsLeftInRange == 0 <= seconds_left /\ seconds_left <= settings.countdown

\* C13: from the loop on, 0 <= seconds_left <= countdown_seconds; after its
\* initialisation seconds_left never increases, and it changes only by a
\* decrement of 1 in the step of a poll that timed out.
C13_SecondsLeftMonotone ==
  [][/\ pc \in LoopStates => SecondsLeftInRange
     /\ pc' \in LoopStates => SecondsLeftInRange'
     /\ pc # "parsed" => seconds_left' <= seconds_left
     /\ (pc # "parsed" /\ seconds_left' # seconds_left) =>
          /\ seconds_left' = seconds_left - 1
          /\ pc = "wait"
          /\ polls' = Append(polls, [sel |-> 0, rd |-> "none"])]_vars

\* two decrements have been made
C13_Witness ==
  /\ pc = "loop"
  /\ settings.countdown = 3
  /\ seconds_left = 1
  /\ Len(polls) = 2

\* the position of the last -e or -f among the first n option elements
\* (0: there is none)
LastEFUpTo(n) ==
  LET S == {i \in 1..n : argv_opts[i].c \in {"e", "f"}}
  IN  IF S = {} THEN 0 ELSE CHOOSE i \in S : \A j \in S : j <= i

\* C14: while and after the options are parsed, the last -e or -f parsed so
\* far decides: after -f the flag is set and the exit code is 0, after
\* -e CODE the exit code is CODE and the flag is cleared.
C14_LastOfExitcodeAndFailWins ==
  (pc \in {"getopt", "parsed"} /\ LastEFUpTo(optidx) # 0) =>
    LET last == argv_opts[LastEFUpTo(optidx)]
    IN  IF last.c = "f"
          THEN /\ OPT_FAIL_NO_USER_INTERACTION \in settings.opts
               /\ settings.exitcode = 0
          ELSE /\ OPT_FAIL_NO_USER_INTERACTION \notin settings.opts
               /\ settings.exitcode = DecimalValue(last.optarg, 0)

\* -e 5 and then -f: the 5 is discarded
C14_Witness ==
  /\ pc = "parsed"
  /\ argv_opts = <<[c |-> "e", optarg |-> <<"5">>], [c |-> "f", optarg |-> <<>>]>>
  /\ settings.exitcode = 0
  /\ OPT_FAIL_NO_USER_INTERACTION \in settings.opts

\* the number of polls that timed out
TimedOutPolls == Cardinality({i \in 1..Len(polls) : polls[i].sel = 0})

\* the number of writes the loop makes when not silent: a status line and a
\* clear sequence for every poll that timed out, a status line for the poll
\* that ended the loop
LoopWrites ==
  2 * TimedOutPolls + (IF Len(polls) > TimedOutPolls THEN 1 ELSE 0)

\* the number of line feeds in a text
LineFeeds(text) == Cardinality({i \in 1..Len(text) : text[i] = "\n"})

\* C15: when the process has exited after the loop and -s was not given,
\* one write follows those of the loop; it is the only one with a line feed,
\* which ends it; with -z it is the clear sequence and the line feed,
\* otherwise the summary with the exit status of the process and with
\* countdown_seconds - seconds_left, the number of polls that timed out.
C15_OneFinalLine ==
  (pc = "exited" /\ LoopDone /\ ~Given("s")) =>
    /\ Len(out) = LoopWrites + 1
    /\ \A i \in 1..(Len(out) - 1) : LineFeeds(out[i]) = 0
    /\ LineFeeds(out[Len(out)]) = 1
    /\ out[Len(out)][Len(out[Len(out)])] = "\n"
    /\ TimedOutPolls = settings.countdown - seconds_left
    /\ out[Len(out)] = IF Given("z") THEN ClearLine \o <<"\n">>
                       ELSE ExitInfo(exit_status, TimedOutPolls)

\* the override has changed the exit code that the summary shows
C15_Witness ==
  /\ pc = "exited"
  /\ LoopDone
  /\ ~Given("s")
  /\ ~Given("z")
  /\ Given("f")
  /\ exit_status = 1
  /\ TimedOutPolls = 2
  /\ out[Len(out)] = ExitInfo(1, 2)

\* the status line of the k-th tick
StatusLine(k) == prepare_message(settings.template, settings.countdown - k + 1)

\* the text begins with the clear sequence
StartsWithClear(text) ==
  Len(text) >= Len(ClearLine) /\ SubSeq(text, 1, Len(ClearLine)) = ClearLine

\* C16: without -s, the writes of the loop come in pairs, one pair per poll:
\* the status line of tick k with seconds_left = N - k + 1 is the write before
\* the k-th poll, and the write after the k-th poll is the clear sequence
\* when the poll timed out and begins with the clear sequence when the poll
\* ended the loop; while a poll waits its status line is the last write.
C16_RenderPollClear ==
  (~Given("s") /\ (pc \in LoopStates \/ LoopDone)) =>
    /\ pc = "loop" => Len(out) = 2 * Len(polls)
    /\ pc = "wait" => /\ Len(out) = 2 * Len(polls) + 1
                      /\ out[Len(out)] = StatusLine(Len(polls) + 1)
    /\ pc \in {"resolve", "report"} => Len(out) = LoopWrites
    /\ \A k \in 1..Len(polls) :
         /\ Len(out) >= 2 * k - 1
         /\ out[2 * k - 1] = StatusLine(k)
         /\ polls[k].sel = 0 => (Len(out) >= 2 * k /\ out[2 * k] = ClearLine)
         /\ (polls[k].sel # 0 /\ Len(out) >= 2 * k) => StartsWithClear(out[2 * k])

\* input in the second tick of a run with the custom template
C16_Witness ==
  /\ ~Given("s")
  /\ Given("m")
  /\ pc = "exited"
  /\ Len(polls) = 2
  /\ polls[2].sel = 1
  /\ out[3] = <<"2", "s", "%">>
  /\ Len(out) = 4

---------------------------------------------------------------------------
(* Properties of the rendering *)

\* a placeholder starts at position i of the template
PlaceholderAt(t, i) == i >= 1 /\ i < Len(t) /\ t[i] = "%" /\ t[i + 1] = "S"

\* what position i of the template contributes to the rendered line
Piece(t, i, n) ==
  IF PlaceholderAt(t, i) THEN IntToStr(n)
  ELSE IF PlaceholderAt(t, i - 1) THEN <<>>
  ELSE IF t[i] \in {"\n", "\r"} THEN <<>>
  ELSE <<t[i]>>

RECURSIVE PiecesFrom(_, _, _)
PiecesFrom(t, i, n) ==
  IF i > Len(t) THEN <<>> ELSE Piece(t, i, n) \o PiecesFrom(t, i + 1, n)

IsLineBreak(c) == c \in {"\n", "\r"}
NotLineBreak(c) == ~IsLineBreak(c)

\* C17: for every template of the enumerated lengths, the rendered line is
\* the template with every "%S" replaced by the decimal text of
\* seconds_left, every carriage return and line feed removed, and every
\* other character copied in order; for a template without "%S" it is the
\* template without its line breaks.  The loop run step by step and
\* prepare_message as the main loop uses it give the same line.
C17_RenderReplacesPlaceholders ==
  (pc = "rendered" /\ Len(settings.template) <= MaxTemplateLen) =>
    /\ msg = PiecesFrom(settings.template, 1, seconds_left) \o <<"NUL">>
    /\ out = <<PiecesFrom(settings.template, 1, seconds_left)>>
    /\ out = <<prepare_message(settings.template, seconds_left)>>
    /\ (\A i \in 1..Len(settings.template) : ~PlaceholderAt(settings.template, i))
         => out = <<SelectSeq(settings.template, NotLineBreak)>>

\* a "%" before a placeholder, a placeholder, a trailing "%"
C17_Witness ==
  /\ pc = "rendered"
  /\ settings.template = <<"%", "%", "S", "%">>
  /\ seconds_left = 42
  /\ out = << <<"%", "4", "2", "%">> >>

\* C18: what prepare_message writes, terminator included, stays within the
\* buffer msg of the loop, for every template -m accepts and every
\* seconds_left from 1 to INT_MAX.
C18_RenderedLineFitsBuffer ==
  (Len(settings.template) < TEMPLATE_SIZE /\ seconds_left \in 1..INT_MAX) =>
    Len(msg) <= MSG_SIZE

\* C19: when standard input is a terminal, in every state from the loop on
\* until the process exits ECHO and ICANON are off and every other flag of
\* the terminal is as in the snapshot; when standard input is not a
\* terminal, no attribute is read into the snapshot or written, and
\* reset_termio is neither registered nor run.
C19_AcquireChangesEchoCanonOnly ==
  /\ (stdin_tty /\ pc \in LoopStates) =>
       /\ "ECHO" \notin term_lflag
       /\ "ICANON" \notin term_lflag
       /\ term_lflag \ {"ECHO", "ICANON"} = default_term \ {"ECHO", "ICANON"}
       /\ atexit_fns = <<"reset_termio">>
  /\ ~stdin_tty =>
       /\ term_lflag = {}
       /\ default_term = {}
       /\ atexit_fns = <<>>
       /\ resets = 0

\* a terminal with signal generation on, while the loop waits
C19_Witness ==
  /\ stdin_tty
  /\ pc = "wait"
  /\ default_term = {"ECHO", "ICANON", "ISIG"}
  /\ term_lflag = {"ISIG"}

\* C20: once the loop has ended, seconds_left = 0 exactly when no poll found
\* input or failed, which is exactly when the loop ended by its condition;
\* a run ended by detected input has seconds_left >= 1.
C20_ZeroIffTimeout ==
  LoopDone =>
    /\ seconds_left = 0 <=> NoInput
    /\ seconds_left = 0 <=> exit_reason = "Timeout"
    /\ EndedByInput => seconds_left >= 1

\* a keypress in the last tick, seen by the test of the override
C20_Witness ==
  /\ pc = "resolve"
  /\ EndedByInput
  /\ Len(polls) = settings.countdown
  /\ seconds_left = 1

\* the first poll found stdin readable with nothing to deliver
EofAtFirstPoll == polls # <<>> /\ polls[1] = [sel |-> 1, rd |-> "eof"]

NotDisplay(o) == o.c \notin {"s", "z", "m"}

\* the command line without its display options
OutcomeOpts == SelectSeq(argv_opts, NotDisplay)

\* every -m template is a setting the parser takes (at most 255 bytes)
TemplatesAccepted ==
  \A i \in 1..Len(argv_opts) :
    argv_opts[i].c = "m" => Len(argv_opts[i].optarg) < TEMPLATE_SIZE

\* what the command line without its display options decides: whether the
\* parser rejects it, whether the usage text is asked for, N, and the last
\* of -e and -f
OutcomeRejected ==
  \/ \E i \in 1..Len(OutcomeOpts) :
       \/ OutcomeOpts[i].c = "?"
       \/ /\ OutcomeOpts[i].c = "e"
          /\ \/ Sscanf_i(OutcomeOpts[i].optarg).n # 1
             \/ Sscanf_i(OutcomeOpts[i].optarg).val \notin 0..255
  \/ /\ argv_rest # <<>>
     /\ \/ Sscanf_i(argv_rest[1]).n # 1
        \/ Sscanf_i(argv_rest[1]).val < 0

OutcomeHelp == \E i \in 1..Len(OutcomeOpts) : OutcomeOpts[i].c = "h"

OutcomeCountdown ==
  IF argv_rest = <<>> THEN -1 ELSE Sscanf_i(argv_rest[1]).val

OutcomeLastEF ==
  LET S == {i \in 1..Len(OutcomeOpts) : OutcomeOpts[i].c \in {"e", "f"}}
  IN  IF S = {} THEN 0 ELSE CHOOSE i \in S : \A j \in S : j <= i

OutcomeFail == OutcomeLastEF # 0 /\ OutcomeOpts[OutcomeLastEF].c = "f"

OutcomeCode ==
  IF OutcomeLastEF # 0 /\ OutcomeOpts[OutcomeLastEF].c = "e"
    THEN Sscanf_i(OutcomeOpts[OutcomeLastEF].optarg).val
  ELSE 0

\* the exit status those and the polls decide
OutcomeStatus ==
  IF OutcomeRejected THEN 1
  ELSE IF OutcomeHelp THEN 0
  ELSE IF OutcomeCountdown < 0 THEN 1
  ELSE IF NoInput /\ OutcomeFail THEN 1
  ELSE OutcomeCode

\* C22: for command lines whose -m templates are accepted settings, the run
\* is decided by N, the -e and -f options in their order and the results of
\* the polls, whatever -s, -z and -m are: polls are made only in a run that
\* is neither rejected nor a request for help, every poll but the last
\* timed out and there are at most N of them, seconds_left is N minus the
\* polls that timed out, the loop ends by timeout exactly when all N polls
\* timed out, and the exit status is the one decided.  Two runs that differ
\* in the display options only therefore go through the same values.
C22_DisplayOptionsInert ==
  TemplatesAccepted =>
    /\ polls # <<>> =>
         /\ ~OutcomeRejected
         /\ ~OutcomeHelp
         /\ Len(polls) <= OutcomeCountdown
         /\ \A i \in 1..(Len(polls) - 1) : polls[i].sel = 0
    /\ (pc \in LoopStates \/ LoopDone) =>
         seconds_left = OutcomeCountdown - TimedOutPolls
    /\ LoopDone =>
         /\ exit_reason = IF NoInput THEN "Timeout" ELSE "Interrupted"
         /\ NoInput => Len(polls) = OutcomeCountdown
    /\ pc = "exited" => exit_status = OutcomeStatus

=============================================================================
